---- MODULE Spec2Model ----
(***************************************************************************)
(* Verification model of the handheld SVBRDF/geometry repository:          *)
(*   - code/parametrizations/locations.py (LocationParametrization and its *)
(*     two variants, DepthMapParametrization and PlaneParametrization)     *)
(*   - code/closed_form.py (closed_form_lambertian_solution, the RANSAC    *)
(*     Lambertian solver)                                                  *)
(* Tensors are modelled by finite functions over small integer domains.    *)
(***************************************************************************)
EXTENDS Integers, Sequences, FiniteSets, TLC

VARIABLES
    vec,    \* create_image / create_vector applied to drawn inputs
    nrm,    \* implied_normal_image applied to a drawn scene
    obj,    \* one parametrization instance, its lru_cache slots, the last call
    \* closed_form_lambertian_solution:
    data,                \* the gathered tensors (lines 77-81)
    nr_its,              \* int(nr_its), lines 107 and 110
    iteration,           \* the number of completed passes of the loop
    rpc,                 \* "loop", "returned" or "raised"
    solution_of_draw,    \* lines 114-121 for every subset line 112 can draw:
                         \* per point the solution, or the error raised
    inliers,             \* line 124, per point the set of inlier views
    inlier_counts,       \* line 125
    best_inlier_counts,  \* line 108, 128
    best_inliers,        \* line 109, 129
    first_best,          \* per point, the inliers of the first pass that
                         \* reached the largest count seen so far
    out,                 \* what the call returned or raised
    \* two calls of closed_form_lambertian_solution in one process:
    rng,                 \* numpy's global generator, np.random (line 112)
    call,                \* per call: its position and its local variables
    \* experiment_settings.py and the main script:
    settings,            \* ExperimentSettings.settings
    files,               \* the settings files <output_path>/<full_name>.json
    stored_states,       \* the state folders <output_path>/stored_states/<full_name>
    sret,                \* the last call of save / check_stored and its result
    run                  \* the main script: its position and its experiment state

ransac_vars ==
    << data, nr_its, iteration, rpc, solution_of_draw, inliers, inlier_counts,
       best_inlier_counts, best_inliers, first_best, out >>

reent_vars == << rng, call >>

settings_vars == << settings, files, stored_states, sret, run >>

vars == << vec, nrm, obj, ransac_vars, reent_vars, settings_vars >>

\* the placeholder of a variable in a specification that does not use it
None == [none |-> TRUE]

\* no solver call in this specification
NoRansac ==
    /\ data = None /\ nr_its = None /\ iteration = None /\ rpc = None
    /\ solution_of_draw = None /\ inliers = None /\ inlier_counts = None
    /\ best_inlier_counts = None /\ best_inliers = None /\ first_best = None /\ out = None

\* no pair of calls in this specification
NoReentrant == rng = None /\ call = None

\* no settings and no main script in this specification
NoSettings ==
    /\ settings = None /\ files = None /\ stored_states = None
    /\ sret = None /\ run = None

(***************************************************************************)
(* Bounds of the model.                                                    *)
(***************************************************************************)
MaxH == 3
MaxW == 3
MaxPoints == 2
MaxMaskCells == 4

(***************************************************************************)
(* Results of a call: a returned value, or a raised error.                 *)
(***************************************************************************)

Ok(v) == [ok |-> TRUE, val |-> v]

Raise(kind) == [ok |-> FALSE, err |-> kind]

\* utils.logging.error(msg): fatal; the kind names the message's failure mode.
error(kind) == Raise(kind)

Variants == {"depth map", "plane"}

(***************************************************************************)
(* Masks, images and measurement vectors.                                  *)
(*   mask   : [h, w, on]   2-D boolean tensor, on = the cells that are true *)
(*   image  : [h, w, k, px] H x W x K tensor, px[<<r,c>>] a K-tuple         *)
(*   vector : [k, rows]    N x K tensor, rows a sequence of K-tuples        *)
(***************************************************************************)
Cells(h, w) == (0 .. h - 1) \X (0 .. w - 1)

Values == {0, 1}

Channels == {1, 3}

\* the true cells among the first i+1 cells of an h x w grid, in row-major order
RECURSIVE RowMajorUpTo(_, _, _)
RowMajorUpTo(w, on, i) ==
    IF i < 0 THEN << >>
    ELSE LET cell == << i \div w, i % w >>
         IN  RowMajorUpTo(w, on, i - 1) \o (IF cell \in on THEN << cell >> ELSE << >>)

\* tensor[mask]: boolean-mask indexing enumerates the true cells in row-major order
MaskCells(mask) ==
    IF mask.h = 0 \/ mask.w = 0 THEN << >>
    ELSE RowMajorUpTo(mask.w, mask.on, mask.h * mask.w - 1)

\* mask[:-1,:-1]
CropMask(mask) ==
    [h |-> mask.h - 1, w |-> mask.w - 1,
     on |-> mask.on \cap Cells(mask.h - 1, mask.w - 1)]

\* mask[-1,:].sum() + mask[:,-1].sum() > 0
TouchesBorder(mask) ==
    \E p \in mask.on : p[1] = mask.h - 1 \/ p[2] = mask.w - 1

\* image[mask] for an image of the mask's shape
MaskedSelect(image, mask) ==
    LET cells == MaskCells(mask)
    IN  [k |-> image.k, rows |-> [i \in 1 .. Len(cells) |-> image.px[cells[i]]]]

\* torch.zeros(h, w, k), optionally fill_(filler)
FilledImage(h, w, k, filler) ==
    [h |-> h, w |-> w, k |-> k, px |-> [p \in Cells(h, w) |-> [i \in 1 .. k |-> filler]]]

\* image[mask] = measurements: the i-th true cell (row-major) takes row i; a
\* single row is broadcast to every true cell; any other row count is an error
MaskedAssign(image, mask, measurements) ==
    LET cells == MaskCells(mask)
        n == Len(measurements.rows)
    IN  IF n # Len(cells) /\ n # 1
        THEN Raise("RuntimeError")
        ELSE Ok([image EXCEPT !.px =
                    [p \in Cells(image.h, image.w) |->
                        IF p \in mask.on
                        THEN LET i == CHOOSE j \in 1 .. Len(cells) : cells[j] = p
                             IN  measurements.rows[IF n = Len(cells) THEN i ELSE 1]
                        ELSE image.px[p]]])

\* DepthMapParametrization.create_image(measurements, filler=None)
DepthMap_create_image(mask, measurements, filler) ==
    MaskedAssign(FilledImage(mask.h, mask.w, measurements.k, filler), mask, measurements)

\* PlaneParametrization.create_image(measurements)
Plane_create_image(mask, measurements) ==
    MaskedAssign(FilledImage(mask.h, mask.w, measurements.k, 0), mask, measurements)

create_image(variant, mask, measurements) ==
    IF variant = "depth map"
    THEN DepthMap_create_image(mask, measurements, 0)
    ELSE Plane_create_image(mask, measurements)

\* A gather that walks the mask column by column instead of row by row.
DepthMap_create_vector_colmajor(mask, image) ==
    LET t == [h |-> mask.w, w |-> mask.h, on |-> { << p[2], p[1] >> : p \in mask.on }]
        cells == MaskCells(t)
    IN  IF image.h = mask.h /\ image.w = mask.w
        THEN Ok([k |-> image.k,
                 rows |-> [i \in 1 .. Len(cells) |-> image.px[<< cells[i][2], cells[i][1] >>]]])
        ELSE IF mask.h = image.h + 1 /\ mask.w = image.w + 1
             THEN Ok(MaskedSelect(image, CropMask(mask)))
             ELSE error("ShapeMismatchError")

\* DepthMapParametrization.create_vector(measurement_image)
DepthMap_create_vector(mask, image) ==
    IF image.h = mask.h /\ image.w = mask.w
    THEN Ok(MaskedSelect(image, mask))
    ELSE IF mask.h = image.h + 1 /\ mask.w = image.w + 1
         THEN Ok(MaskedSelect(image, CropMask(mask)))
         ELSE error("ShapeMismatchError")

\* A create_vector whose last branch returns nothing instead of failing, as the
\* base class's create_vector does.
Plane_create_vector_noraise(mask, image) ==
    IF image.h = mask.h /\ image.w = mask.w
    THEN Ok(MaskedSelect(image, mask))
    ELSE IF mask.h = image.h + 1 /\ mask.w = image.w + 1
         THEN Ok(MaskedSelect(image, CropMask(mask)))
         ELSE Ok(None)

\* PlaneParametrization.create_vector(measurement_image)
Plane_create_vector(mask, image) ==
    IF image.h = mask.h /\ image.w = mask.w
    THEN Ok(MaskedSelect(image, mask))
    ELSE IF mask.h = image.h + 1 /\ mask.w = image.w + 1
         THEN Ok(MaskedSelect(image, CropMask(mask)))
         ELSE error("ShapeMismatchError")

create_vector(variant, mask, image) ==
    IF variant = "depth map"
    THEN DepthMap_create_vector(mask, image)
    ELSE Plane_create_vector(mask, image)

(***************************************************************************)
(* Vector primitives (utils.vectors) on integer 3-vectors.                 *)
(* A unit vector is represented by the primitive integer vector along it   *)
(* (its components divided by their gcd): normalize loses no direction, and *)
(* a normalized vector has norm 0 exactly when it is the zero vector.  For  *)
(* an axis-parallel vector the representative is the unit vector itself.    *)
(***************************************************************************)
Zero3 == << 0, 0, 0 >>

Abs(x) == IF x < 0 THEN -x ELSE x

Sign(x) == IF x > 0 THEN 1 ELSE IF x < 0 THEN -1 ELSE 0

RECURSIVE Gcd(_, _)
Gcd(a, b) == IF b = 0 THEN a ELSE Gcd(b, a % b)

VAdd(a, b) == << a[1] + b[1], a[2] + b[2], a[3] + b[3] >>

VSub(a, b) == << a[1] - b[1], a[2] - b[2], a[3] - b[3] >>

VScale(k, a) == << k * a[1], k * a[2], k * a[3] >>

inner_product(a, b) == a[1] * b[1] + a[2] * b[2] + a[3] * b[3]

cross_product(a, b) ==
    << a[2] * b[3] - a[3] * b[2], a[3] * b[1] - a[1] * b[3], a[1] * b[2] - a[2] * b[1] >>

normalize(v) ==
    IF v = Zero3 THEN Zero3
    ELSE LET g == Gcd(Gcd(Abs(v[1]), Abs(v[2])), Abs(v[3]))
         IN  << v[1] \div g, v[2] \div g, v[3] \div g >>

RECURSIVE VSum(_, _)
VSum(f, S) ==
    IF S = {} THEN Zero3
    ELSE LET q == CHOOSE x \in S : TRUE IN VAdd(f[q], VSum(f, S \ {q}))

\* M @ v for a 3 x 3 matrix given as the tuple of its rows
MatVec(M, v) == << inner_product(M[1], v), inner_product(M[2], v), inner_product(M[3], v) >>

Identity3 == << << 1, 0, 0 >>, << 0, 1, 0 >>, << 0, 0, 1 >> >>

(***************************************************************************)
(* utils.depth_maps.depth_map_to_locations(depth, invK, invRt): pinhole     *)
(* unprojection of every pixel, x = column, y = row:                        *)
(*     P[r,c] = R (depth[r,c] * invK (c, r, 1)) + t                         *)
(* with invRt given as [R |-> invRt[:3,:3], t |-> invRt[:3,3]].             *)
(***************************************************************************)
depth_map_to_locations(depth, invK, invRt) ==
    [h |-> depth.h, w |-> depth.w, k |-> 3,
     px |-> [p \in Cells(depth.h, depth.w) |->
               VAdd(MatVec(invRt.R, VScale(depth.px[p][1], MatVec(invK, << p[2], p[1], 1 >>))),
                    invRt.t)]]

(***************************************************************************)
(* LocationParametrization.implied_normal_image, lines 54-99: the normal   *)
(* image of a location image.                                              *)
(***************************************************************************)
\* the 5 x 5 kernel of ones with padding 2: a window of radius 2
KernelRadius == 2

Window(p, h, w) ==
    { q \in Cells(h, w) : Abs(q[1] - p[1]) <= KernelRadius /\ Abs(q[2] - p[2]) <= KernelRadius }

\* lines 54-63: finite-difference normals, oriented towards the camera
oriented_normals(location_image, camloc) ==
    [p \in Cells(location_image.h - 1, location_image.w - 1) |->
        LET here == location_image.px[p]
            down_vector == normalize(VSub(here, location_image.px[<< p[1] + 1, p[2] >>]))
            right_vector == normalize(VSub(here, location_image.px[<< p[1], p[2] + 1 >>]))
            normal == normalize(cross_product(down_vector, right_vector))
            reorientation == Sign(inner_product(normal, VSub(camloc, here)))
        IN  VScale(reorientation, normal)]

\* lines 65-69: normalize(conv2d(normal_image, ones(5,5), padding=2))
local_normal_means(normal_image, h, w) ==
    [p \in Cells(h, w) |-> normalize(VSum(normal_image, Window(p, h, w)))]

\* lines 71-72: the pixels whose normal is replaced by the local mean
replacement_mask(normal_image, mask) ==
    { p \in DOMAIN normal_image :
        /\ p \in mask.on
        /\ \/ normal_image[p] = Zero3
           \/ << p[1] + 1, p[2] >> \notin mask.on
           \/ << p[1], p[2] + 1 >> \notin mask.on }

normal_image_of(location_image, mask, camloc) ==
    LET h == location_image.h - 1
        w == location_image.w - 1
        normal_image == oriented_normals(location_image, camloc)
        local_normal_mean == local_normal_means(normal_image, h, w)
        replaced == replacement_mask(normal_image, mask)
        filled == [p \in Cells(h, w) |->
                     IF p \in replaced THEN local_normal_mean[p] ELSE normal_image[p]]
        \* lines 76-81
        mean_normal == normalize(VSum(local_normal_mean, Cells(h, w)))
        refilled == [p \in Cells(h, w) |->
                       IF filled[p] = Zero3 /\ p \in mask.on THEN mean_normal ELSE filled[p]]
    IN  \* lines 82-97: a zero row and a zero column are appended
        [h |-> h + 1, w |-> w + 1, k |-> 3,
         px |-> [p \in Cells(h + 1, w + 1) |->
                   IF p[1] < h /\ p[2] < w THEN refilled[p] ELSE Zero3]]

(***************************************************************************)
(* A parametrization instance: attrs is the set of attributes assigned so  *)
(* far (reading any other raises AttributeError), the fields their values. *)
(***************************************************************************)
Unset == [unset |-> TRUE]

NewInstance(variant) ==
    [id |-> 1, variant |-> variant, attrs |-> {}, depth |-> Unset, mask |-> Unset,
     invK |-> Unset, invRt |-> Unset, point_count |-> Unset, p_plane |-> Unset,
     camera_rays |-> Unset]

Has(self, a) == a \in self.attrs

\* DepthMapParametrization.initialize(depth, mask, invK, invRt)
DepthMap_initialize(self, depth, mask, invK, invRt) ==
    [self |-> [self EXCEPT !.depth = depth, !.mask = mask, !.invK = invK, !.invRt = invRt,
                           !.point_count = Cardinality(mask.on),
                           !.attrs = @ \cup {"depth", "mask", "invK", "invRt", "point_count"}],
     res |-> Ok(None)]

\* PlaneParametrization.initialize(depth, mask, invK, invRt): lines 183-188 run,
\* line 190 reads the names W and H, which nothing defines: NameError.  The
\* plane parameter (the row sums of the pseudo-inverse of the masked world
\* points) is kept as that expression of the points.
Plane_initialize(self, depth, mask, invK, invRt) ==
    LET world_points == MaskedSelect(depth_map_to_locations(depth, invK, invRt), mask)
    IN  [self |-> [self EXCEPT !.invK = invK, !.invRt = invRt, !.mask = mask,
                               !.p_plane = [pinverse_row_sums_of |-> world_points],
                               !.attrs = @ \cup {"invK", "invRt", "mask", "p_plane"}],
         res |-> Raise("NameError")]

initialize(self, depth, mask, invK, invRt) ==
    IF self.variant = "depth map"
    THEN DepthMap_initialize(self, depth, mask, invK, invRt)
    ELSE Plane_initialize(self, depth, mask, invK, invRt)

\* DepthMapParametrization.deserialize(depth, invK, invRt, mask)
DepthMap_deserialize(self, depth, invK, invRt, mask) ==
    [self |-> [self EXCEPT !.depth = depth, !.invK = invK, !.invRt = invRt, !.mask = mask,
                           !.point_count = Cardinality(mask.on),
                           !.attrs = @ \cup {"depth", "mask", "invK", "invRt", "point_count"}],
     res |-> Ok(None)]

\* PlaneParametrization.deserialize(p_plane, invK, invRt, mask)
Plane_deserialize(self, p_plane, invK, invRt, mask) ==
    [self |-> [self EXCEPT !.p_plane = p_plane, !.invK = invK, !.invRt = invRt, !.mask = mask,
                           !.point_count = Cardinality(mask.on),
                           !.attrs = @ \cup {"p_plane", "mask", "invK", "invRt", "point_count"}],
     res |-> Ok(None)]

\* get_point_count(): return self.point_count
get_point_count(self) ==
    IF ~ Has(self, "point_count") THEN Raise("AttributeError") ELSE Ok(self.point_count)

\* self.create_image(measurements) / self.create_vector(image) on an instance
self_create_image(self, measurements) ==
    IF ~ Has(self, "mask") THEN Raise("AttributeError")
    ELSE create_image(self.variant, self.mask, measurements)

self_create_vector(self, image) ==
    IF ~ Has(self, "mask") THEN Raise("AttributeError")
    ELSE create_vector(self.variant, self.mask, image)

(***************************************************************************)
(* functools.lru_cache(maxsize=1) on a method: one slot per decorated       *)
(* function, keyed by self; a call that raises stores nothing.              *)
(***************************************************************************)
Empty == [empty |-> TRUE]

EmptyCache ==
    [DepthMap_location_vector |-> Empty, Plane_location_vector |-> Empty,
     implied_depth_image |-> Empty, implied_depth_vector |-> Empty,
     implied_normal_image |-> Empty, implied_normal_vector |-> Empty]

Hit(cache, slot, self) == cache[slot] # Empty /\ cache[slot].key = self.id

Memo(cache, slot, self, r) ==
    IF r.ok THEN [cache EXCEPT ![slot] = [key |-> self.id, val |-> r.val]] ELSE cache

\* a cached call: the stored value on a hit, else the body's result, stored
\* when it is a value; body is [res, cache], the cache as its nested calls left it
Cached(cache, slot, self, body) ==
    IF Hit(cache, slot, self)
    THEN [res |-> Ok(cache[slot].val), cache |-> cache]
    ELSE [res |-> body.res, cache |-> Memo(body.cache, slot, self, body.res)]

\* DepthMapParametrization.location_vector, lines 131-132
DepthMap_location_vector_body(self) ==
    IF ~ Has(self, "depth") THEN Raise("AttributeError")
    ELSE Ok(MaskedSelect(depth_map_to_locations(self.depth, self.invK, self.invRt), self.mask))

\* PlaneParametrization.location_vector, lines 199-204: self._camera_rays is
\* read first
Plane_location_vector_body(self) ==
    IF ~ Has(self, "camera_rays") THEN Raise("AttributeError")
    ELSE LET camera_loc == self.invRt.t
             rays == self.camera_rays.rows
         IN  Ok([k |-> 3,
                 rows |-> [i \in 1 .. Len(rays) |->
                    VAdd(camera_loc,
                         VScale((1 - inner_product(camera_loc, self.p_plane))
                                  \div inner_product(rays[i], self.p_plane), rays[i]))]])

location_vector(self, cache) ==
    IF self.variant = "depth map"
    THEN Cached(cache, "DepthMap_location_vector", self,
                [res |-> DepthMap_location_vector_body(self), cache |-> cache])
    ELSE Cached(cache, "Plane_location_vector", self,
                [res |-> Plane_location_vector_body(self), cache |-> cache])

\* the body of implied_normal_image (lines 51-99)
implied_normal_image_body(self, cache) ==
    LET locations == location_vector(self, cache)
        location_image == self_create_image(self, locations.res.val)
    IN  [cache |-> locations.cache,
         res |-> IF ~ locations.res.ok THEN locations.res
                 ELSE IF ~ location_image.ok THEN location_image
                 ELSE IF TouchesBorder(self.mask)
                      THEN error("ConfigurationError")
                      ELSE Ok(normal_image_of(location_image.val, self.mask, self.invRt.t))]

implied_normal_image(self, cache) ==
    Cached(cache, "implied_normal_image", self, implied_normal_image_body(self, cache))

\* the body of implied_normal_vector (line 103)
implied_normal_vector_body(self, cache) ==
    LET image == implied_normal_image(self, cache)
    IN  [cache |-> image.cache,
         res |-> IF ~ image.res.ok THEN image.res
                 ELSE self_create_vector(self, image.res.val)]

implied_normal_vector(self, cache) ==
    Cached(cache, "implied_normal_vector", self, implied_normal_vector_body(self, cache))

\* LocationParametrization.implied_depth_image, lines 39-43: the camera-space
\* depth R[2] . P + t[2] of every pixel of the location image, with
\* R = invRt[:3,:3].T and t = -R @ invRt[:3,3:]
Base_implied_depth_image_body(self, cache) ==
    LET locations == location_vector(self, cache)
        location_image == self_create_image(self, locations.res.val)
        axis == << self.invRt.R[1][3], self.invRt.R[2][3], self.invRt.R[3][3] >>
    IN  [cache |-> locations.cache,
         res |-> IF ~ locations.res.ok THEN locations.res
                 ELSE IF ~ location_image.ok THEN location_image
                 ELSE Ok([h |-> location_image.val.h, w |-> location_image.val.w, k |-> 1,
                          px |-> [p \in Cells(location_image.val.h, location_image.val.w) |->
                                    << inner_product(axis, location_image.val.px[p])
                                         - inner_product(axis, self.invRt.t) >>]])]

\* implied_depth_image: DepthMapParametrization overrides it (lines 134-135,
\* not cached); the plane variant inherits the cached base method
implied_depth_image(self, cache) ==
    IF self.variant = "depth map"
    THEN [cache |-> cache,
          res |-> IF ~ Has(self, "depth") THEN Raise("AttributeError") ELSE Ok(self.depth)]
    ELSE Cached(cache, "implied_depth_image", self, Base_implied_depth_image_body(self, cache))

\* the body of implied_depth_vector (line 47)
implied_depth_vector_body(self, cache) ==
    LET image == implied_depth_image(self, cache)
    IN  [cache |-> image.cache,
         res |-> IF ~ image.res.ok THEN image.res
                 ELSE self_create_vector(self, image.res.val)]

implied_depth_vector(self, cache) ==
    Cached(cache, "implied_depth_vector", self, implied_depth_vector_body(self, cache))

(***************************************************************************)
(* Inputs of the image <-> vector conversions.                             *)
(***************************************************************************)
Masks ==
    UNION { { [h |-> h, w |-> w, on |-> S] :
                S \in { T \in SUBSET Cells(h, w) : Cardinality(T) <= MaxPoints } } :
            h \in 1 .. MaxH, w \in 1 .. MaxW }

\* the Mask invariant of the data model: never true on the last row or column
ValidMask(mask) == ~ TouchesBorder(mask)

RowsOf(k) == { [i \in 1 .. k |-> v] : v \in Values }

SeqsUpTo(S, n) == UNION { [1 .. m -> S] : m \in 0 .. n }

MeasVectors ==
    UNION { { [k |-> k, rows |-> s] : s \in SeqsUpTo(RowsOf(k), MaxPoints) } :
            k \in Channels }

\* an h x w x 1 image whose pixels all differ: pixel <<r,c>> holds r*w + c + 1
LabelImage(h, w) ==
    [h |-> h, w |-> w, k |-> 1, px |-> [p \in Cells(h, w) |-> << p[1] * w + p[2] + 1 >>]]

TestImages == { LabelImage(h, w) : h \in 0 .. MaxH, w \in 0 .. MaxW }

(***************************************************************************)
(* Specification SpecVec: create_image and create_vector on drawn inputs.  *)
(***************************************************************************)
VecInit ==
    /\ nrm = None
    /\ obj = None
    /\ NoRansac
    /\ NoReentrant
    /\ NoSettings
    /\ vec \in [pc : {"start"}, variant : Variants, mask : Masks,
             meas : MeasVectors, image : {None}, out : {None}]

\* image = self.create_image(measurements)
VecCreateImage ==
    /\ vec.pc = "start"
    /\ LET r == create_image(vec.variant, vec.mask, vec.meas)
       IN  vec' = [vec EXCEPT !.pc = IF r.ok THEN "image" ELSE "raised",
                              !.image = IF r.ok THEN r.val ELSE None,
                              !.out = r]
    /\ UNCHANGED << nrm, obj, ransac_vars, reent_vars, settings_vars >>

\* self.create_vector(image) on the image create_image returned
VecCreateVector ==
    /\ vec.pc = "image"
    /\ vec' = [vec EXCEPT !.pc = "roundtrip",
                          !.out = create_vector(vec.variant, vec.mask, vec.image)]
    /\ UNCHANGED << nrm, obj, ransac_vars, reent_vars, settings_vars >>

\* self.create_vector(image) on an image of any shape
VecCreateVectorOn ==
    /\ vec.pc = "start"
    /\ \E img \in TestImages :
          vec' = [vec EXCEPT !.pc = "gathered", !.image = img,
                             !.out = create_vector(vec.variant, vec.mask, img)]
    /\ UNCHANGED << nrm, obj, ransac_vars, reent_vars, settings_vars >>

VecNext == VecCreateImage \/ VecCreateVector \/ VecCreateVectorOn

SpecVec == VecInit /\ [][VecNext]_vars

(***************************************************************************)
(* Specification SpecNormal: implied_normal_image on planar scenes.  The    *)
(* camera looks along +z from height -1 onto the world plane z = 0 with     *)
(* unit depth, so every finite-difference normal is 0 or +-(0,0,1) and the  *)
(* window sums of unit normals are exact.                                   *)
(***************************************************************************)
NormalMasks ==
    UNION { { [h |-> h, w |-> w, on |-> S] :
                S \in { T \in SUBSET Cells(h, w) : Cardinality(T) <= MaxMaskCells } } :
            h \in 2 .. MaxH, w \in 2 .. MaxW }

CamLocs == { << 0, 0, -1 >>, << 1, 1, -1 >> }

UniformDepth(h, w, d) == [h |-> h, w |-> w, k |-> 1, px |-> [p \in Cells(h, w) |-> << d >>]]

PlanarInstance(mask, camloc) ==
    DepthMap_initialize(NewInstance("depth map"), UniformDepth(mask.h, mask.w, 1), mask,
                        Identity3, [R |-> Identity3, t |-> camloc]).self

NrmInit ==
    /\ vec = None
    /\ obj = None
    /\ NoRansac
    /\ NoReentrant
    /\ NoSettings
    /\ nrm \in { [pc |-> "start", self |-> PlanarInstance(m, c), out |-> None] :
                m \in NormalMasks, c \in CamLocs }

\* self.implied_normal_image(), nothing memoized
NrmImpliedNormalImage ==
    /\ nrm.pc = "start"
    /\ nrm' = [nrm EXCEPT !.pc = "called",
                          !.out = implied_normal_image(nrm.self, EmptyCache).res]
    /\ UNCHANGED << vec, obj, ransac_vars, reent_vars, settings_vars >>

NrmNext == NrmImpliedNormalImage

SpecNormal == NrmInit /\ [][NrmNext]_vars

(***************************************************************************)
(* Specification SpecLife: the life of one parametrization instance.  The   *)
(* instance is created by LocationParametrizationFactory(name)(), then      *)
(* initialize / deserialize, optimizer steps on its parameter,              *)
(* enforce_parameter_bounds and the query methods are called in any order.  *)
(***************************************************************************)
GridH == 3
GridW == 3

LifeMasks ==
    { [h |-> GridH, w |-> GridW, on |-> S] :
        S \in { { << 0, 0 >>, << 0, 1 >>, << 1, 0 >> }, { << 1, 1 >> }, { << 1, 1 >>, << 2, 2 >> } } }

DepthValues == { -1, 1, 2 }

PlaneValues == { << 0, 0, 1 >>, << 0, 0, 2 >> }

LifeInvK == Identity3

LifeInvRt == [R |-> Identity3, t |-> << 1, 1, -1 >>]

\* torch.Tensor.clamp_(min=0.) on every entry of the depth map
clamp_min0(depth) ==
    [depth EXCEPT !.px = [p \in DOMAIN depth.px |->
                            << IF depth.px[p][1] < 0 THEN 0 ELSE depth.px[p][1] >>]]

\* the query methods by name, on an instance and the cache slots
Call(op, self, cache) ==
    CASE op = "location_vector" -> location_vector(self, cache)
      [] op = "implied_depth_image" -> implied_depth_image(self, cache)
      [] op = "implied_depth_vector" -> implied_depth_vector(self, cache)
      [] op = "implied_normal_image" -> implied_normal_image(self, cache)
      [] op = "implied_normal_vector" -> implied_normal_vector(self, cache)

LifeInit ==
    /\ vec = None
    /\ nrm = None
    /\ NoRansac
    /\ NoReentrant
    /\ NoSettings
    /\ obj \in { [self |-> NewInstance(v), cache |-> EmptyCache,
                  ret |-> None, validOnly |-> TRUE] : v \in Variants }

\* the instance, the cache slots and the returned value after a call of op
Returned(old, op, r, cache, valid) ==
    [self |-> r.self, cache |-> cache, ret |-> [op |-> op, res |-> r.res],
     validOnly |-> old.validOnly /\ valid]

\* initialize(depth, mask, invK, invRt) on a drawn scene
LifeInitialize ==
    /\ \E d \in DepthValues \ { -1 }, m \in LifeMasks :
         obj' = Returned(obj, "initialize",
                         initialize(obj.self, UniformDepth(m.h, m.w, d), m, LifeInvK, LifeInvRt),
                         obj.cache, ValidMask(m))
    /\ UNCHANGED << vec, nrm, ransac_vars, reent_vars, settings_vars >>

\* deserialize(*args) on a drawn serialized state
LifeDeserialize ==
    /\ \E d \in DepthValues \ { -1 }, q \in PlaneValues, m \in LifeMasks :
         obj' = Returned(obj, "deserialize",
                         IF obj.self.variant = "depth map"
                         THEN DepthMap_deserialize(obj.self, UniformDepth(m.h, m.w, d),
                                                   LifeInvK, LifeInvRt, m)
                         ELSE Plane_deserialize(obj.self, q, LifeInvK, LifeInvRt, m),
                         obj.cache, ValidMask(m))
    /\ UNCHANGED << vec, nrm, ransac_vars, reent_vars, settings_vars >>

\* optimizer.step() on the tensor of parameter_info() / parameters(): the
\* parameter's data is overwritten in place
LifeOptimizerStep ==
    /\ \/ /\ obj.self.variant = "depth map"
          /\ Has(obj.self, "depth")
          /\ \E d \in DepthValues :
               /\ UniformDepth(GridH, GridW, d) # obj.self.depth
               /\ obj' = Returned(obj, "step",
                                  [self |-> [obj.self EXCEPT
                                               !.depth = UniformDepth(GridH, GridW, d)],
                                   res |-> Ok(None)],
                                  obj.cache, TRUE)
       \/ /\ obj.self.variant = "plane"
          /\ Has(obj.self, "p_plane")
          /\ \E q \in PlaneValues :
               /\ q # obj.self.p_plane
               /\ obj' = Returned(obj, "step",
                                  [self |-> [obj.self EXCEPT !.p_plane = q], res |-> Ok(None)],
                                  obj.cache, TRUE)
    /\ UNCHANGED << vec, nrm, ransac_vars, reent_vars, settings_vars >>

\* enforce_parameter_bounds(): lines 178-179 (depth map), 245-246 (plane: pass)
enforce_parameter_bounds(self) ==
    IF self.variant = "plane" THEN [self |-> self, res |-> Ok(None)]
    ELSE IF ~ Has(self, "depth") THEN [self |-> self, res |-> Raise("AttributeError")]
    ELSE [self |-> [self EXCEPT !.depth = clamp_min0(self.depth)], res |-> Ok(None)]

LifeEnforceParameterBounds ==
    /\ obj' = Returned(obj, "enforce_parameter_bounds", enforce_parameter_bounds(obj.self),
                       obj.cache, TRUE)
    /\ UNCHANGED << vec, nrm, ransac_vars, reent_vars, settings_vars >>

CachedOps ==
    { "location_vector", "implied_depth_vector", "implied_normal_image",
      "implied_normal_vector" }

\* one of the query methods is called
LifeQuery ==
    /\ \E op \in CachedOps \cup { "implied_depth_image" } :
         LET r == Call(op, obj.self, obj.cache)
         IN  obj' = Returned(obj, op, [self |-> obj.self, res |-> r.res], r.cache, TRUE)
    /\ UNCHANGED << vec, nrm, ransac_vars, reent_vars, settings_vars >>

LifeGetPointCount ==
    /\ obj' = Returned(obj, "get_point_count",
                       [self |-> obj.self, res |-> get_point_count(obj.self)],
                       obj.cache, TRUE)
    /\ UNCHANGED << vec, nrm, ransac_vars, reent_vars, settings_vars >>

LifeNext ==
    \/ LifeInitialize
    \/ LifeDeserialize
    \/ LifeOptimizerStep
    \/ LifeEnforceParameterBounds
    \/ LifeQuery
    \/ LifeGetPointCount

SpecLife == LifeInit /\ [][LifeNext]_vars

(***************************************************************************)
(* closed_form_lambertian_solution (closed_form.py).  Intensities and       *)
(* observations are counted in units of 1e4, so that the inlier threshold   *)
(* 1e4 is 1 and the regularizer 1e8 (a product of two such values) is 1.    *)
(* The gray values are kept as channel sums (three times the channel mean)  *)
(* and every solve is done exactly, by adjugate and determinant.            *)
(***************************************************************************)
NPoints == 2
MaxViews == 7

Points == 1 .. NPoints

\* utils.sentinels.OBSERVATION_OUT_OF_BOUNDS
OBSERVATION_OUT_OF_BOUNDS == -1

\* line 102, in units of 1e4
threshold == 1

\* line 91: torch.eye(3) * 1e8, in units of 1e8
regularizer == 1

\* line 101
subset_size_cap == 6

subset_size_five(C) == IF C < 5 THEN C ELSE 5

subset_size(C) == IF C < subset_size_cap THEN C ELSE subset_size_cap

\* line 107 for subset_size = 6: int(10 ln(1e-4) / ln(1 - 0.8^6)) = int(302.96...)
nr_its_formula == 302

\* a loop that makes no pass
nr_its_none(C) == 0

\* lines 107, 110: int(nr_its)
nr_its_of(C) == IF subset_size(C) < C THEN nr_its_formula ELSE 1

Views(d) == 1 .. d.C

\* line 73: occluded by the flag or by the sentinel in observations[..., 1]
occluded(batch_occlusion, observation) ==
    batch_occlusion + (IF observation[2] = OBSERVATION_OUT_OF_BOUNDS THEN 1 ELSE 0) > 0

\* lines 87-89
valid_mask(d, p, v) ==
    (IF d.shadows[p][v] = 0 THEN 1 ELSE 0) * (IF d.occlusions[p][v] THEN 0 ELSE 1)

ValidViews(d, p) == { v \in Views(d) : valid_mask(d, p, v) = 1 }

\* lines 83-85, 95: three times gray_light_intensities[p, v]
gray_light_intensities3(d, p, v) ==
    VScale(valid_mask(d, p, v),
           VScale(d.light_intensities[p][v][1] + d.light_intensities[p][v][2]
                    + d.light_intensities[p][v][3],
                  d.light_directions[p][v]))

\* line 96: three times gray_observations[p, v]
gray_observations3(d, p, v) ==
    valid_mask(d, p, v)
      * (d.observations[p][v][1] + d.observations[p][v][2] + d.observations[p][v][3])

Outer(a, b) == << VScale(a[1], b), VScale(a[2], b), VScale(a[3], b) >>

MatAdd(A, B) == << VAdd(A[1], B[1]), VAdd(A[2], B[2]), VAdd(A[3], B[3]) >>

MatScale(k, A) == << VScale(k, A[1]), VScale(k, A[2]), VScale(k, A[3]) >>

ZeroMat == << Zero3, Zero3, Zero3 >>

RECURSIVE MatSum(_, _)
MatSum(f, S) ==
    IF S = {} THEN ZeroMat
    ELSE LET x == CHOOSE y \in S : TRUE IN MatAdd(f[x], MatSum(f, S \ {x}))

Det3(A) ==
      A[1][1] * (A[2][2] * A[3][3] - A[2][3] * A[3][2])
    - A[1][2] * (A[2][1] * A[3][3] - A[2][3] * A[3][1])
    + A[1][3] * (A[2][1] * A[3][2] - A[2][2] * A[3][1])

\* the adjugate: A . Adj3(A) = Det3(A) . I
Adj3(A) ==
    << << A[2][2] * A[3][3] - A[2][3] * A[3][2],
          A[1][3] * A[3][2] - A[1][2] * A[3][3],
          A[1][2] * A[2][3] - A[1][3] * A[2][2] >>,
       << A[2][3] * A[3][1] - A[2][1] * A[3][3],
          A[1][1] * A[3][3] - A[1][3] * A[3][1],
          A[1][3] * A[2][1] - A[1][1] * A[2][3] >>,
       << A[2][1] * A[3][2] - A[2][2] * A[3][1],
          A[1][2] * A[3][1] - A[1][1] * A[3][2],
          A[1][1] * A[2][2] - A[1][2] * A[2][1] >> >>

\* line 119 (and line 137 with the best inlier set as S): 1 when at most two
\* of the views in S are valid for point p
invalids_subset_never(d, p, S) == 0

invalids_subset(d, p, S) ==
    IF Cardinality(S \cap ValidViews(d, p)) <= 2 THEN 1 ELSE 0

\* lines 119-121 (and 137-139 with the inlier set as the subset): the
\* regularized normal equations of point p over the views in S.  With channel
\* sums the system is 9 (A^T A + eye * invalids), the right side 9 A^T b, and
\* the solution num / den; torch's inverse() raises on a singular matrix.
solve_subset(d, p, S) ==
    LET invalids == invalids_subset(d, p, S)
        M == MatAdd(MatSum([v \in S |-> Outer(gray_light_intensities3(d, p, v),
                                               gray_light_intensities3(d, p, v))], S),
                    MatScale(9 * regularizer * invalids, Identity3))
        r == VSum([v \in S |-> VScale(gray_observations3(d, p, v),
                                      gray_light_intensities3(d, p, v))], S)
    IN  IF Det3(M) = 0 THEN Raise("RuntimeError")
        ELSE Ok([num |-> MatVec(Adj3(M), r), den |-> Det3(M)])

\* lines 123-124: |residual| < threshold and valid, the residual being
\* (a3 . num / den - b3) / 3
is_inlier_unmasked(d, p, v, sol) ==
    Abs(inner_product(gray_light_intensities3(d, p, v), sol.num)
          - gray_observations3(d, p, v) * sol.den)
      < 3 * threshold * Abs(sol.den)

is_inlier(d, p, v, sol) ==
    /\ valid_mask(d, p, v) = 1
    /\ Abs(inner_product(gray_light_intensities3(d, p, v), sol.num)
             - gray_observations3(d, p, v) * sol.den)
         < 3 * threshold * Abs(sol.den)

inliers_of(d, p, sol) == { v \in Views(d) : is_inlier(d, p, v, sol) }

\* line 126
better_subset_ge(count, best_count) == count >= best_count

better_subset(count, best_count) == count > best_count

\* lines 128-129: best * (1 - better_subset) + new * better_subset
blend_overwrite(best, new, better) == new

blend(best, new, better) == IF better THEN new ELSE best

\* lines 135-139: the refit over the best inlier set, normalized
inlier_normal(d, p, S) ==
    LET sol == solve_subset(d, p, S)
    IN  IF ~ sol.ok THEN sol
        ELSE Ok(normalize(VScale(Sign(sol.val.den), sol.val.num)))

\* lines 143-151 for channel c: with the unit normal n / |n| the shading of
\* view v is (n . L) I_c / |n|, the 1x1 system is (sum of squares +
\* inlier_invalids) and the albedo pi * sqrt(nn) * num / den, nn = n . n.
\* The scalar added at line 147 is 1 in the fit's own units.
\* shading_squares is c_light_intensities^T c_light_intensities times nn.
shading_squares(d, p, c, n, S) ==
    LET mask == S \cap ValidViews(d, p)
        shade == [v \in Views(d) |->
                    IF v \in mask
                    THEN inner_product(n, d.light_directions[p][v]) * d.light_intensities[p][v][c]
                    ELSE 0]
    IN  VSum([v \in Views(d) |-> << shade[v] * shade[v], 0, 0 >>], Views(d))[1]

albedo_fit(d, p, c, n, S) ==
    LET mask == S \cap ValidViews(d, p)
        inlier_invalids == invalids_subset(d, p, S)
        shade == [v \in Views(d) |->
                    IF v \in mask
                    THEN inner_product(n, d.light_directions[p][v]) * d.light_intensities[p][v][c]
                    ELSE 0]
        nn == inner_product(n, n)
        squares == shading_squares(d, p, c, n, S)
        products == VSum([v \in Views(d) |->
                            << shade[v] * (IF v \in mask THEN d.observations[p][v][c] ELSE 0),
                               0, 0 >>], Views(d))[1]
        den == squares + inlier_invalids * nn
    IN  IF nn = 0
        THEN IF inlier_invalids = 0 THEN Raise("RuntimeError")
             ELSE Ok([num |-> 0, den |-> 1, nn |-> 0])
        ELSE IF den = 0 THEN Raise("RuntimeError")
        ELSE Ok([num |-> products, den |-> den, nn |-> nn])

(***************************************************************************)
(* Specification SpecRansac: the solver on drawn data sets.  Every point    *)
(* is lit along the three axes in turn with unit intensity and observed     *)
(* with radiance 1 per channel, except as its kind says.                    *)
(***************************************************************************)
Axis(i) == [j \in 1 .. 3 |-> IF j = i THEN 1 ELSE 0]

KindPairs ==
    { << "clean", "outlier" >>, << "outlier", "spread" >>, << "spread", "clean" >>,
      << "shadowed", "spread" >>, << "occluded", "oob" >>, << "coplanar", "clean" >> }

Dataset(C, kinds) ==
    LET obs(k, v) ==
            IF k = "outlier" /\ v = 4 THEN << 3, 3, 3 >>
            ELSE IF k = "spread" /\ v % 3 = 1
                 THEN << (v - 1) \div 3, (v - 1) \div 3, (v - 1) \div 3 >>
            ELSE IF k = "oob" /\ v = 1 THEN << 1, OBSERVATION_OUT_OF_BOUNDS, 1 >>
            ELSE IF k = "oob" /\ v = 2 THEN << OBSERVATION_OUT_OF_BOUNDS, 1, 1 >>
            ELSE << 1, 1, 1 >>
        flag(k, v) == IF k = "occluded" /\ v = 2 THEN 1 ELSE 0
        shadow(k, v) ==
            IF (k = "shadowed" /\ v >= 3) \/ (k = "coplanar" /\ v = 3) THEN 1 ELSE 0
    IN  [C |-> C,
         light_intensities |-> [p \in Points |-> [v \in 1 .. C |-> << 1, 1, 1 >>]],
         light_directions |-> [p \in Points |-> [v \in 1 .. C |-> Axis(((v - 1) % 3) + 1)]],
         shadows |-> [p \in Points |-> [v \in 1 .. C |-> shadow(kinds[p], v)]],
         observations |-> [p \in Points |-> [v \in 1 .. C |-> obs(kinds[p], v)]],
         occlusions |-> [p \in Points |-> [v \in 1 .. C |->
                            occluded(flag(kinds[p], v), obs(kinds[p], v))]]]

Datasets == { Dataset(C, [p \in Points |-> k[((p - 1) % 2) + 1]]) :
                C \in 1 .. MaxViews, k \in KindPairs }

Range(s) == { s[i] : i \in DOMAIN s }

\* A draw with replacement: any sequence of size views.
choice_with_replacement(C, size) == [1 .. size -> 1 .. C]

\* np.random.choice(C, size=[size], replace=False): the index sequences the
\* call can return, size views without repetition
choice(C, size) ==
    { s \in [1 .. size -> 1 .. C] : \A i, j \in 1 .. size : i < j => s[i] # s[j] }

\* line 112: the sets of views a drawn subset can hold
Subsets(d) == { Range(s) : s \in choice(d.C, subset_size(d.C)) }

\* lines 119-124 tabulated: for each data set and each subset a pass can
\* draw, the inlier flags of every point under the fit to that subset (no
\* flags where the solve of some point raises)
inliers_of_draw ==
    [d \in Datasets |-> [S \in Subsets(d) |-> [p \in Points |->
        LET sol == solve_subset(d, p, S)
        IN  IF sol.ok THEN inliers_of(d, p, sol.val) ELSE {}]]]

\* the state when the loop is entered: lines 101-110
RansacInit ==
    /\ vec = None
    /\ nrm = None
    /\ obj = None
    /\ NoReentrant
    /\ NoSettings
    /\ data \in Datasets
    /\ nr_its = nr_its_of(data.C)
    /\ iteration = 0
    /\ rpc = "loop"
    /\ solution_of_draw =
         [S \in Subsets(data) |-> [p \in Points |-> solve_subset(data, p, S)]]
    /\ inliers = [p \in Points |-> {}]
    /\ inlier_counts = [p \in Points |-> 0]
    /\ best_inlier_counts = [p \in Points |-> -1]
    /\ best_inliers = [p \in Points |-> {}]
    /\ first_best = [p \in Points |-> {}]
    /\ out = None

\* one pass of the loop body, lines 112-129; inverse() raising at line 120
\* ends the call
RansacIterate ==
    /\ rpc = "loop"
    /\ iteration < nr_its
    /\ \E subset \in DOMAIN solution_of_draw :
         IF \E p \in Points : ~ solution_of_draw[subset][p].ok
         THEN /\ rpc' = "raised"
              /\ out' = Raise("RuntimeError")
              /\ UNCHANGED << iteration, inliers, inlier_counts, best_inlier_counts,
                              best_inliers, first_best >>
         ELSE /\ inliers' = inliers_of_draw[data][subset]
              /\ inlier_counts' = [p \in Points |-> Cardinality(inliers'[p])]
              /\ best_inlier_counts' =
                   [p \in Points |->
                      blend(best_inlier_counts[p], inlier_counts'[p],
                            better_subset(inlier_counts'[p], best_inlier_counts[p]))]
              /\ best_inliers' =
                   [p \in Points |->
                      blend(best_inliers[p], inliers'[p],
                            better_subset(inlier_counts'[p], best_inlier_counts[p]))]
              /\ first_best' =
                   [p \in Points |->
                      IF inlier_counts'[p] > best_inlier_counts[p]
                      THEN inliers'[p] ELSE first_best[p]]
              /\ iteration' = iteration + 1
              /\ UNCHANGED << rpc, out >>
    /\ UNCHANGED << data, nr_its, solution_of_draw >>
    /\ UNCHANGED << vec, nrm, obj, reent_vars, settings_vars >>

\* after the loop: lines 135-155
RansacRefit ==
    /\ rpc = "loop"
    /\ iteration = nr_its
    /\ LET normals == [p \in Points |-> inlier_normal(data, p, best_inliers[p])]
       IN  IF \E p \in Points : ~ normals[p].ok
           THEN rpc' = "raised" /\ out' = Raise("RuntimeError")
           ELSE LET albedos == [p \in Points |-> [c \in 1 .. 3 |->
                                   albedo_fit(data, p, c, normals[p].val, best_inliers[p])]]
                IN  IF \E p \in Points, c \in 1 .. 3 : ~ albedos[p][c].ok
                    THEN rpc' = "raised" /\ out' = Raise("RuntimeError")
                    ELSE /\ rpc' = "returned"
                         /\ out' = Ok([inlier_normals |-> [p \in Points |-> normals[p].val],
                                       albedos |-> [p \in Points |->
                                                      [c \in 1 .. 3 |-> albedos[p][c].val]],
                                       best_inliers |-> best_inliers])
    /\ UNCHANGED << data, nr_its, iteration, solution_of_draw, inliers, inlier_counts,
                    best_inlier_counts, best_inliers, first_best >>
    /\ UNCHANGED << vec, nrm, obj, reent_vars, settings_vars >>

RansacNext == RansacIterate \/ RansacRefit

SpecRansac == RansacInit /\ [][RansacNext]_vars

(***************************************************************************)
(* Specification SpecReentrant: two calls of the solver in one process on  *)
(* the same gathered data, their loop passes interleaved in any order.     *)
(* np.random.choice (line 112) draws from numpy's module-level generator,  *)
(* which every call in the process shares.                                 *)
(***************************************************************************)
ReentMaxViews == 3
MaxSeed == 2

Callers == {1, 2}

\* the permutation of the C views the generator yields in a given state
permutation(state, C) == [i \in 1 .. C |-> ((state + i - 1) % C) + 1]

\* np.random.choice(C, size=[size], replace=False) in a given generator
\* state: the first size entries of a permutation
np_random_choice(state, C, size) == SubSeq(permutation(state, C), 1, size)

\* the generator's state after a draw
np_random_advance(state) == state + 1

ReentDatasets == { d \in Datasets : d.C <= ReentMaxViews }

\* lines 108-110: the local state of a call when its loop is entered
EnteredCall ==
    [pc |-> "loop", iteration |-> 0, draws |-> 0, subset |-> << >>,
     best_inlier_counts |-> [p \in Points |-> -1],
     best_inliers |-> [p \in Points |-> {}],
     out |-> None]

ReentInit ==
    /\ vec = None
    /\ nrm = None
    /\ obj = None
    /\ data \in ReentDatasets
    /\ nr_its = None /\ iteration = None /\ rpc = None
    /\ solution_of_draw = None /\ inliers = None /\ inlier_counts = None
    /\ best_inlier_counts = None /\ best_inliers = None /\ first_best = None /\ out = None
    /\ NoSettings
    /\ \E seed \in 0 .. MaxSeed : rng = [seed |-> seed, state |-> seed]
    /\ call = [c \in Callers |-> EnteredCall]

\* one pass of the loop of call c, lines 112-129
ReentIterate(c) ==
    /\ call[c].pc = "loop"
    /\ call[c].iteration < nr_its_of(data.C)
    /\ LET subset == np_random_choice(rng.state, data.C, subset_size(data.C))
           sols == [p \in Points |-> solve_subset(data, p, Range(subset))]
           counts == [p \in Points |-> Cardinality(inliers_of(data, p, sols[p].val))]
       IN  /\ rng' = [rng EXCEPT !.state = np_random_advance(@)]
           /\ IF \E p \in Points : ~ sols[p].ok
              THEN call' = [call EXCEPT ![c].pc = "raised",
                                        ![c].draws = @ + 1,
                                        ![c].subset = subset,
                                        ![c].out = Raise("RuntimeError")]
              ELSE call' = [call EXCEPT
                     ![c].iteration = @ + 1,
                     ![c].draws = @ + 1,
                     ![c].subset = subset,
                     ![c].best_inlier_counts =
                        [p \in Points |->
                           blend(@[p], counts[p], better_subset(counts[p], @[p]))],
                     ![c].best_inliers =
                        [p \in Points |->
                           blend(@[p], inliers_of(data, p, sols[p].val),
                                 better_subset(counts[p],
                                               call[c].best_inlier_counts[p]))]]
    /\ UNCHANGED << vec, nrm, obj, ransac_vars, settings_vars >>

\* call c after its loop: lines 135-155
ReentRefit(c) ==
    /\ call[c].pc = "loop"
    /\ call[c].iteration = nr_its_of(data.C)
    /\ LET best == call[c].best_inliers
           normals == [p \in Points |-> inlier_normal(data, p, best[p])]
       IN  IF \E p \in Points : ~ normals[p].ok
           THEN call' = [call EXCEPT ![c].pc = "raised",
                                     ![c].out = Raise("RuntimeError")]
           ELSE LET albedos == [p \in Points |-> [ch \in 1 .. 3 |->
                                   albedo_fit(data, p, ch, normals[p].val, best[p])]]
                IN  IF \E p \in Points, ch \in 1 .. 3 : ~ albedos[p][ch].ok
                    THEN call' = [call EXCEPT ![c].pc = "raised",
                                              ![c].out = Raise("RuntimeError")]
                    ELSE call' = [call EXCEPT
                           ![c].pc = "returned",
                           ![c].out =
                              Ok([inlier_normals |-> [p \in Points |-> normals[p].val],
                                  albedos |-> [p \in Points |->
                                                 [ch \in 1 .. 3 |-> albedos[p][ch].val]],
                                  best_inliers |-> best])]
    /\ UNCHANGED << vec, nrm, obj, ransac_vars, rng, settings_vars >>

ReentNext == \E c \in Callers : ReentIterate(c) \/ ReentRefit(c)

SpecReentrant == ReentInit /\ [][ReentNext]_vars

(***************************************************************************)
(* experiment_settings.py.  Python values carry their type; a JSON document *)
(* is a value of JSON's own types, so that writing a value with json.dump   *)
(* and reading it back with json.load is a conversion in each direction.   *)
(***************************************************************************)
\* every value is a record with one field, named after its Python type
PyNone == [NoneType |-> TRUE]

PyBool(b) == [bool |-> b]

PyInt(n) == [int |-> n]

PyStr(str) == [str |-> str]

PyList(seq) == [list |-> seq]

PyTuple(seq) == [tuple |-> seq]

PyDict(f) == [dict |-> f]

EmptyDict == PyDict([k \in {} |-> PyNone])

\* type(x) and the content of x; the same for a JSON value
Type(x) == CHOOSE t \in DOMAIN x : TRUE

Val(x) == x[Type(x)]

\* the number a bool or an int compares as
py_number(x) == IF Type(x) = "bool" THEN (IF x.bool THEN 1 ELSE 0) ELSE x.int

\* Python's == on these values (line 85)
RECURSIVE py_eq(_, _)
py_eq(x, y) ==
    IF Type(x) \in {"bool", "int"} /\ Type(y) \in {"bool", "int"}
    THEN py_number(x) = py_number(y)
    ELSE IF Type(x) # Type(y) THEN FALSE
    ELSE CASE Type(x) = "NoneType" -> TRUE
           [] Type(x) = "str" -> x.str = y.str
           [] Type(x) \in {"list", "tuple"} ->
                /\ Len(Val(x)) = Len(Val(y))
                /\ \A i \in DOMAIN Val(x) : py_eq(Val(x)[i], Val(y)[i])
           [] Type(x) = "dict" ->
                /\ DOMAIN x.dict = DOMAIN y.dict
                /\ \A k \in DOMAIN x.dict : py_eq(x.dict[k], y.dict[k])

\* json.dump (line 42): lists and tuples both become arrays
RECURSIVE json_dump(_)
json_dump(x) ==
    CASE Type(x) = "NoneType" -> [null |-> TRUE]
      [] Type(x) = "bool" -> IF x.bool THEN [true |-> TRUE] ELSE [false |-> TRUE]
      [] Type(x) = "int" -> [number |-> x.int]
      [] Type(x) = "str" -> [string |-> x.str]
      [] Type(x) \in {"list", "tuple"} ->
           [array |-> [i \in DOMAIN Val(x) |-> json_dump(Val(x)[i])]]
      [] Type(x) = "dict" ->
           [object |-> [k \in DOMAIN x.dict |-> json_dump(x.dict[k])]]

\* A reader that yields a tuple for every array.
RECURSIVE json_load_tuples(_)
json_load_tuples(y) ==
    CASE Type(y) = "null" -> PyNone
      [] Type(y) = "true" -> PyBool(TRUE)
      [] Type(y) = "false" -> PyBool(FALSE)
      [] Type(y) = "number" -> PyInt(y.number)
      [] Type(y) = "string" -> PyStr(y.string)
      [] Type(y) = "array" ->
           PyTuple([i \in DOMAIN y.array |-> json_load_tuples(y.array[i])])
      [] Type(y) = "object" ->
           PyDict([k \in DOMAIN y.object |-> json_load_tuples(y.object[k])])

\* json.load (line 81): an array becomes a list, an object a dict
RECURSIVE json_load(_)
json_load(y) ==
    CASE Type(y) = "null" -> PyNone
      [] Type(y) = "true" -> PyBool(TRUE)
      [] Type(y) = "false" -> PyBool(FALSE)
      [] Type(y) = "number" -> PyInt(y.number)
      [] Type(y) = "string" -> PyStr(y.string)
      [] Type(y) = "array" -> PyList([i \in DOMAIN y.array |-> json_load(y.array[i])])
      [] Type(y) = "object" -> PyDict([k \in DOMAIN y.object |-> json_load(y.object[k])])

\* lines 18-25
RECURSIVE recursive_update(_, _)
recursive_update(dictionary, updates) ==
    PyDict([key \in DOMAIN dictionary.dict \cup DOMAIN updates.dict |->
              IF key \notin DOMAIN updates.dict THEN dictionary.dict[key]
              ELSE IF Type(updates.dict[key]) = "dict"
                   THEN recursive_update(IF key \in DOMAIN dictionary.dict
                                         THEN dictionary.dict[key] ELSE EmptyDict,
                                         updates.dict[key])
                   ELSE updates.dict[key]])

\* index=None
NoIndex == -1

\* lines 37, 77: name + ("" if index is None else "_%d" % index)
full_name(name, index) ==
    IF index = NoIndex THEN name ELSE name \o "_" \o ToString(index)

\* ExperimentSettings.get, lines 55-61
get(self_settings, name, index) ==
    IF index = NoIndex THEN self_settings[name]
    ELSE IF name = "optimization_steps"
         THEN recursive_update(self_settings["default_optimization_settings"],
                               self_settings[name].list[index + 1])
         ELSE self_settings[name].list[index + 1]

\* ExperimentSettings.save, lines 36-42: the files after the call
save(self_settings, fs, name, index) ==
    LET settings_file == full_name(name, index)
        subsettings == get(self_settings, name, index)
    IN  [f \in DOMAIN fs \cup {settings_file} |->
            IF f = settings_file THEN json_dump(subsettings) ELSE fs[f]]

\* lines 84, 86: {k: v for k, v in d.items() if k not in non_critical}
without(d, non_critical) == PyDict([k \in DOMAIN d.dict \ non_critical |-> d.dict[k]])

\* ExperimentSettings.check_stored, lines 70-95
check_stored(self_settings, fs, name, index, non_critical) ==
    LET settings_file == full_name(name, index)
    IN  IF settings_file \in DOMAIN fs
        THEN LET stored_settings == json_load(fs[settings_file])
                 subsettings == get(self_settings, name, index)
             IN  IF ~ py_eq(without(subsettings, non_critical),
                            without(stored_settings, non_critical))
                 THEN error("IncompatibleSettingsError")
                 ELSE Ok(TRUE)
        ELSE Ok(FALSE)

(***************************************************************************)
(* Specification SpecSettings: save and check_stored called in any order   *)
(* on the settings of the main script, which are edited between calls as   *)
(* a user edits the script between runs.                                   *)
(***************************************************************************)
MaxSteps == 2

\* main.py lines 78-87: the settings of optimization step i (from 0)
StepSettings(i) ==
    IF i = 0
    THEN PyDict("parameters" :> PyList(<< PyStr("diffuse_materials") >>)
                @@ "visualize_initial" :> PyBool(TRUE))
    ELSE PyDict("losses" :> PyDict("normal smoothness" :> PyInt(i)))

\* main.py lines 16-88, the sections that are saved per step
SettingsWith(nr_steps) ==
    [data_settings |->
        PyDict("data_type" :> PyStr("XIMEA") @@ "lazy_image_loading" :> PyBool(FALSE)),
     parametrization_settings |->
        PyDict("locations" :> PyStr("depth map") @@ "normals" :> PyStr("per point")),
     initialization_settings |->
        PyDict("normals" :> PyStr("from_closed_form")
               @@ "specular" :> PyNone
               @@ "light_calibration_files" :>
                    PyDict("positions" :> PyStr("lights_array.pkl"))),
     default_optimization_settings |->
        PyDict("parameters" :> PyList(<< PyStr("locations"), PyStr("normals") >>)
               @@ "losses" :> PyDict("photoconsistency L1" :> PyInt(1)
                                     @@ "normal smoothness" :> PyInt(1))
               @@ "iterations" :> PyInt(1000)
               @@ "visualize_initial" :> PyBool(FALSE)
               @@ "visualize_results" :> PyBool(TRUE)),
     optimization_steps |-> PyList([i \in 1 .. nr_steps |-> StepSettings(i - 1)])]

\* the steps of self.settings
StepIndices(self_settings) == 0 .. Len(self_settings["optimization_steps"].list) - 1

\* the (name, index) pairs the main script passes to save and check_stored
Targets(self_settings) ==
    { << "initialization_settings", NoIndex >>,
      << "default_optimization_settings", NoIndex >> }
      \cup { << "optimization_steps", i >> : i \in StepIndices(self_settings) }

AllTargets == Targets(SettingsWith(MaxSteps))

NonCriticalChoices == { {}, {"visualize_results"} }

\* a key taken out of a section
Removed == [removed |-> TRUE]

with_key(d, key, value) ==
    IF value = Removed THEN without(d, {key})
    ELSE PyDict([k \in DOMAIN d.dict \cup {key} |-> IF k = key THEN value ELSE d.dict[k]])

\* the script's settings literal with one entry of one section rewritten
edit(self_settings, name, index, key, value) ==
    IF index = NoIndex
    THEN [self_settings EXCEPT ![name] = with_key(@, key, value)]
    ELSE [self_settings EXCEPT ![name] =
             PyList([@.list EXCEPT ![index + 1] = with_key(@, key, value)])]

Edits ==
    { << "default_optimization_settings", NoIndex, "visualize_results", v >> :
         v \in { PyBool(TRUE), PyInt(1), PyBool(FALSE) } }
    \cup { << "optimization_steps", 0, "iterations", v >> : v \in { PyInt(10), Removed } }

NoFiles == [f \in {} |-> None]

SettingsInit ==
    /\ vec = None
    /\ nrm = None
    /\ obj = None
    /\ NoRansac
    /\ NoReentrant
    /\ settings = SettingsWith(MaxSteps)
    /\ files = NoFiles
    /\ stored_states = None
    /\ run = None
    /\ sret = [op |-> "none"]

SettingsSave(name, index) ==
    /\ << name, index >> \in Targets(settings)
    /\ files' = save(settings, files, name, index)
    /\ sret' = [op |-> "save", name |-> name, index |-> index, res |-> Ok(None)]
    /\ UNCHANGED << settings, stored_states, run >>
    /\ UNCHANGED << vec, nrm, obj, ransac_vars, reent_vars >>

SettingsCheckStored(name, index, non_critical) ==
    /\ << name, index >> \in Targets(settings)
    /\ sret' = [op |-> "check_stored", name |-> name, index |-> index,
                non_critical |-> non_critical,
                res |-> check_stored(settings, files, name, index, non_critical),
                after_save |-> /\ sret.op = "save"
                               /\ sret.name = name
                               /\ sret.index = index]
    /\ UNCHANGED << settings, files, stored_states, run >>
    /\ UNCHANGED << vec, nrm, obj, ransac_vars, reent_vars >>

SettingsEdit(name, index, key, value) ==
    /\ settings' = edit(settings, name, index, key, value)
    /\ sret' = [op |-> "edit"]
    /\ UNCHANGED << files, stored_states, run >>
    /\ UNCHANGED << vec, nrm, obj, ransac_vars, reent_vars >>

SettingsNext ==
    \/ \E t \in AllTargets : SettingsSave(t[1], t[2])
    \/ \E t \in AllTargets, non_critical \in NonCriticalChoices :
          SettingsCheckStored(t[1], t[2], non_critical)
    \/ \E e \in Edits : SettingsEdit(e[1], e[2], e[3], e[4])

SpecSettings == SettingsInit /\ [][SettingsNext]_vars

(***************************************************************************)
(* Specification SpecMain: runs of the main script, main.py lines 90-179,  *)
(* on one output folder.  A run can be cut off before any statement and     *)
(* inside the writing of a state folder; the next run starts from the       *)
(* files the earlier runs left, with the settings literal possibly edited   *)
(* in between.  The experiment state in memory is the list of the stages    *)
(* computed on it.                                                          *)
(***************************************************************************)
\* ExperimentSettings.get_state_folder, lines 44-53
get_state_folder(name, index) == "stored_states/" \o full_name(name, index)

\* the settings section of a stage: the initialization (NoIndex) or the
\* optimization step of that index (lines 131, 163)
settings_name(step_index) ==
    IF step_index = NoIndex THEN "initialization_settings" ELSE "optimization_steps"

\* lines 130, 148
state_folder(step_index) ==
    IF step_index = NoIndex THEN get_state_folder("initialization", NoIndex)
    ELSE get_state_folder("optimization_steps", step_index)

\* experiment_state.initialize(...) at line 134, optimize(...) at lines 166-171
computed_on(experiment_state, step_index) ==
    Append(experiment_state,
           full_name(IF step_index = NoIndex THEN "initialize" ELSE "optimize", step_index))

\* the truth value of a setting in an if statement (lines 152, 173)
py_truth(x) ==
    IF Type(x) = "bool" THEN Val(x)
    ELSE IF Type(x) = "int" THEN Val(x) # 0
    ELSE Type(x) # "NoneType"

Statement(at, step_index) == [at |-> at, step_index |-> step_index]

\* line 147: the statement after the last one of stage step_index
after_stage(step_index, nr_steps) ==
    IF step_index = NoIndex THEN Statement("defaults", NoIndex)
    ELSE IF step_index + 1 < nr_steps THEN Statement("check", step_index + 1)
    ELSE Statement("done", NoIndex)

\* the script with the settings of a stage saved before its state
following_settings_first(at, step_index, nr_steps) ==
    CASE at = "setup" -> Statement("check", NoIndex)
      [] at = "load" /\ step_index = NoIndex -> Statement("defaults", NoIndex)
      [] at = "load" /\ step_index # NoIndex -> Statement("save_settings", step_index)
      [] at = "compute" -> Statement("save_settings", step_index)
      [] at = "save_settings" -> Statement("save_state", step_index)
      [] at = "save_state" /\ step_index = NoIndex -> Statement("defaults", NoIndex)
      [] at = "save_state" /\ step_index # NoIndex -> Statement("visualize", step_index)
      [] at = "defaults" ->
            IF nr_steps > 0 THEN Statement("check", 0) ELSE Statement("done", NoIndex)
      [] at = "visualize" -> after_stage(step_index, nr_steps)

\* the statement the script executes after the one at (at, step_index):
\* lines 132, 134-136, 138, 147, 164, 166-171, 173
following(at, step_index, nr_steps) ==
    CASE at = "setup" -> Statement("check", NoIndex)
      [] at = "load" /\ step_index = NoIndex -> Statement("defaults", NoIndex)
      [] at = "load" /\ step_index # NoIndex -> Statement("save_settings", step_index)
      [] at = "compute" -> Statement("save_state", step_index)
      [] at = "save_state" -> Statement("save_settings", step_index)
      [] at = "save_settings" /\ step_index = NoIndex -> Statement("defaults", NoIndex)
      [] at = "save_settings" /\ step_index # NoIndex -> Statement("visualize", step_index)
      [] at = "defaults" ->
            IF nr_steps > 0 THEN Statement("check", 0) ELSE Statement("done", NoIndex)
      [] at = "visualize" -> after_stage(step_index, nr_steps)

nr_steps_of(self_settings) == Len(self_settings["optimization_steps"].list)

\* the run moved to the statement after the current one
Advance(r, self_settings) ==
    LET next == following(r.at, r.step_index, nr_steps_of(self_settings))
    IN  [r EXCEPT !.at = next.at, !.step_index = next.step_index]

\* the run ended at the current statement, by an error or by being cut off
Ended(r, how) == [r EXCEPT !.at = "dead", !.ended = how]

\* a run at line 90, ExperimentState.create at line 95 included
NewRun ==
    [at |-> "setup", step_index |-> NoIndex, ended |-> "", experiment_state |-> << >>,
     found |-> {}, loaded |-> {}, computed |-> {}]

\* the stages of the script that store a state
Stages == {NoIndex} \cup (0 .. MaxSteps - 1)

MainInit ==
    /\ vec = None
    /\ nrm = None
    /\ obj = None
    /\ NoRansac
    /\ NoReentrant
    /\ settings \in { edit(SettingsWith(MaxSteps), "default_optimization_settings", NoIndex,
                           "visualize_results", PyBool(b)) : b \in BOOLEAN }
    /\ files = NoFiles
    /\ stored_states = NoFiles
    /\ run = NewRun
    /\ sret = [op |-> "none"]

\* lines 90-127: the parametrization and the data settings are checked and
\* saved
MainSetup ==
    /\ run.at = "setup"
    /\ LET parametrization ==
               check_stored(settings, files, "parametrization_settings", NoIndex, {})
           saved == save(settings, files, "parametrization_settings", NoIndex)
           data_checked == check_stored(settings, saved, "data_settings", NoIndex, {})
       IN  IF ~ parametrization.ok
           THEN run' = Ended(run, parametrization.err) /\ files' = files
           ELSE IF ~ data_checked.ok
           THEN run' = Ended(run, data_checked.err) /\ files' = saved
           ELSE /\ run' = Advance(run, settings)
                /\ files' = save(settings, saved, "data_settings", NoIndex)
    /\ UNCHANGED << settings, stored_states, sret >>
    /\ UNCHANGED << vec, nrm, obj, ransac_vars, reent_vars >>

\* lines 131 and 148-163: check_stored for the stage decides between load
\* and compute
MainCheckStored ==
    /\ run.at = "check"
    /\ LET stored == check_stored(settings, files, settings_name(run.step_index),
                                  run.step_index, {})
       IN  run' = IF ~ stored.ok THEN Ended(run, stored.err)
                  ELSE IF stored.val
                  THEN [run EXCEPT !.at = "load", !.found = @ \cup {run.step_index}]
                  ELSE [run EXCEPT !.at = "compute"]
    /\ UNCHANGED << settings, files, stored_states, sret >>
    /\ UNCHANGED << vec, nrm, obj, ransac_vars, reent_vars >>

\* lines 132 and 164: experiment_state.load(folder)
MainLoad ==
    /\ run.at = "load"
    /\ LET folder == state_folder(run.step_index)
       IN  IF folder \in DOMAIN stored_states /\ "state" \in DOMAIN stored_states[folder]
           THEN run' = Advance([run EXCEPT !.experiment_state = stored_states[folder].state,
                                           !.loaded = @ \cup {run.step_index}], settings)
           ELSE run' = Ended(run, "FileNotFoundError")
    /\ UNCHANGED << settings, files, stored_states, sret >>
    /\ UNCHANGED << vec, nrm, obj, ransac_vars, reent_vars >>

\* lines 134 and 166-169: initialize(...) or optimize(...)
MainCompute ==
    /\ run.at = "compute"
    /\ run' = Advance([run EXCEPT !.experiment_state = computed_on(@, run.step_index),
                                  !.computed = @ \cup {run.step_index}], settings)
    /\ UNCHANGED << settings, files, stored_states, sret >>
    /\ UNCHANGED << vec, nrm, obj, ransac_vars, reent_vars >>

\* lines 135 and 170: experiment_state.save(folder); cut off inside, the
\* folder is left incomplete
MainSaveState ==
    /\ run.at = "save_state"
    /\ \E cut_off \in BOOLEAN :
         LET folder == state_folder(run.step_index)
             content == IF cut_off THEN [partial |-> TRUE]
                        ELSE [state |-> run.experiment_state]
         IN  /\ stored_states' = [f \in DOMAIN stored_states \cup {folder} |->
                                     IF f = folder THEN content ELSE stored_states[f]]
             /\ run' = IF cut_off THEN Ended(run, "cut off") ELSE Advance(run, settings)
    /\ UNCHANGED << settings, files, sret >>
    /\ UNCHANGED << vec, nrm, obj, ransac_vars, reent_vars >>

\* lines 136 and 171: experiment_settings.save for the stage
MainSaveSettings ==
    /\ run.at = "save_settings"
    /\ files' = save(settings, files, settings_name(run.step_index), run.step_index)
    /\ run' = Advance(run, settings)
    /\ UNCHANGED << settings, stored_states, sret >>
    /\ UNCHANGED << vec, nrm, obj, ransac_vars, reent_vars >>

\* lines 138-145: the default optimization settings are checked and saved
MainDefaults ==
    /\ run.at = "defaults"
    /\ LET stored == check_stored(settings, files, "default_optimization_settings",
                                  NoIndex, {})
       IN  IF ~ stored.ok
           THEN run' = Ended(run, stored.err) /\ files' = files
           ELSE /\ run' = Advance(run, settings)
                /\ files' = save(settings, files, "default_optimization_settings", NoIndex)
    /\ UNCHANGED << settings, stored_states, sret >>
    /\ UNCHANGED << vec, nrm, obj, ransac_vars, reent_vars >>

\* lines 173-179: with visualize_results set, get_shorthand (lines 62-68)
\* ends the run with error("get_shorthand not implemented yet")
MainVisualize ==
    /\ run.at = "visualize"
    /\ LET optimization_settings == get(settings, "optimization_steps", run.step_index)
       IN  run' = IF py_truth(optimization_settings.dict["visualize_results"])
                  THEN Ended(run, error("NotImplementedError").err)
                  ELSE Advance(run, settings)
    /\ UNCHANGED << settings, files, stored_states, sret >>
    /\ UNCHANGED << vec, nrm, obj, ransac_vars, reent_vars >>

\* the process is killed before its next statement
MainCutOff ==
    /\ run.at \notin {"dead", "done"}
    /\ run' = Ended(run, "cut off")
    /\ UNCHANGED << settings, files, stored_states, sret >>
    /\ UNCHANGED << vec, nrm, obj, ransac_vars, reent_vars >>

\* the script is started again on the same output folder
MainRestart ==
    /\ run.at \in {"dead", "done"}
    /\ run' = NewRun
    /\ UNCHANGED << settings, files, stored_states, sret >>
    /\ UNCHANGED << vec, nrm, obj, ransac_vars, reent_vars >>

\* between two runs an entry of the settings literal is rewritten
MainEdit(name, index, key, value) ==
    /\ run.at \in {"dead", "done"}
    /\ settings' = edit(settings, name, index, key, value)
    /\ UNCHANGED << files, stored_states, run, sret >>
    /\ UNCHANGED << vec, nrm, obj, ransac_vars, reent_vars >>

MainNext ==
    \/ MainSetup
    \/ MainCheckStored
    \/ MainLoad
    \/ MainCompute
    \/ MainSaveState
    \/ MainSaveSettings
    \/ MainDefaults
    \/ MainVisualize
    \/ MainCutOff
    \/ MainRestart
    \/ \E e \in Edits : MainEdit(e[1], e[2], e[3], e[4])

SpecMain == MainInit /\ [][MainNext]_vars

(***************************************************************************)
(* Claims on the image <-> vector conversions (SpecVec).                   *)
(***************************************************************************)
\* p comes before q in row-major order
Before(p, q) == p[1] < q[1] \/ (p[1] = q[1] /\ p[2] < q[2])

\* the pixels of img at the cells of S, one row per cell, ordered row-major
PixelsAt(img, S) ==
    [k |-> img.k,
     rows |-> [i \in 1 .. Cardinality(S) |->
                 img.px[CHOOSE p \in S : Cardinality({ q \in S : Before(q, p) }) = i - 1]]]

\* C3: for a valid mask and an N x K measurement vector m (N the number of true
\* mask cells), create_vector(create_image(m)) returns exactly m, rows in the
\* same order, in both variants.
C3_RoundTrip ==
    ( /\ vec.pc = "roundtrip"
      /\ ValidMask(vec.mask)
      /\ Len(vec.meas.rows) = Cardinality(vec.mask.on) )
    => vec.out = Ok(vec.meas)

C3_Witness ==
    /\ vec.pc = "roundtrip"
    /\ ValidMask(vec.mask)
    /\ vec.mask.on = { << 0, 1 >>, << 1, 0 >> }
    /\ Len(vec.meas.rows) = 2
    /\ vec.meas.rows[1] # vec.meas.rows[2]
    /\ vec.meas.k = 3
    /\ vec.out = Ok(vec.meas)

\* C4: create_vector(image) gathers the masked cells when the image has the
\* mask's height and width, gathers the cells of the mask without its last row
\* and column when the image is one row and one column smaller, and fails with
\* the shape-mismatch error for every other image shape.
C4_CreateVectorShapes ==
    vec.pc = "gathered" =>
        LET m == vec.mask
            img == vec.image
            inner == { p \in m.on : p[1] < m.h - 1 /\ p[2] < m.w - 1 }
        IN  /\ (img.h = m.h /\ img.w = m.w)
                  => vec.out = Ok(PixelsAt(img, m.on))
            /\ (img.h = m.h - 1 /\ img.w = m.w - 1)
                  => vec.out = Ok(PixelsAt(img, inner))
            /\ ( ~ (img.h = m.h /\ img.w = m.w) /\ ~ (img.h = m.h - 1 /\ img.w = m.w - 1) )
                  => vec.out = Raise("ShapeMismatchError")

C4_Witness ==
    /\ vec.pc = "gathered"
    /\ vec.variant = "plane"
    /\ vec.mask.h = 3 /\ vec.mask.w = 3
    /\ vec.image.h = 2 /\ vec.image.w = 2
    /\ vec.mask.on = { << 0, 1 >>, << 2, 2 >> }
    /\ vec.out = Ok([k |-> 1, rows |-> << << 2 >> >>])

(***************************************************************************)
(* Claims on implied_normal_image (SpecNormal).                            *)
(***************************************************************************)
\* every normal of the planar scenes is 0 or +-(0,0,1): the window sums of
\* lines 65-69 and 78-80 add parallel unit vectors only
PlanarNormalsAxisAligned ==
    (nrm.pc = "called" /\ nrm.out.ok)
        => \A p \in Cells(nrm.out.val.h, nrm.out.val.w) :
              nrm.out.val.px[p] \in { Zero3, << 0, 0, 1 >>, << 0, 0, -1 >> }

IsUnit(v) == inner_product(v, v) = 1

\* C6: implied_normal_image() returns an HxWx3 image with a unit vector at
\* every masked pixel with row < H-1 and col < W-1 and the exact zero vector
\* at every pixel outside the mask.
C6_NormalImage ==
    (nrm.pc = "called" /\ nrm.out.ok)
        => LET img == nrm.out.val
               m == nrm.self.mask
           IN  /\ img.h = m.h /\ img.w = m.w /\ img.k = 3
               /\ \A p \in Cells(m.h, m.w) :
                    /\ (p \in m.on /\ p[1] < m.h - 1 /\ p[2] < m.w - 1) => IsUnit(img.px[p])
                    /\ p \notin m.on => img.px[p] = Zero3

\* the pixels whose finite-difference normal is valid: masked, with the down
\* and the right neighbour masked as well
ValidNormalPixels(mask) ==
    { p \in mask.on : << p[1] + 1, p[2] >> \in mask.on /\ << p[1], p[2] + 1 >> \in mask.on }

\* the pixels of the boundary: masked, with the down or the right neighbour
\* unmasked
BoundaryPixels(mask) ==
    { p \in mask.on : << p[1] + 1, p[2] >> \notin mask.on \/ << p[1], p[2] + 1 >> \notin mask.on }

\* the repaired normal of every pixel when only the valid normals enter the
\* window means: the normalized mean of the valid normals in the pixel's
\* window, and the global mean direction of these means where that is zero
RepairedFromValidNormals(self) ==
    LET h == self.mask.h - 1
        w == self.mask.w - 1
        location_image == self_create_image(self, location_vector(self, EmptyCache).res.val).val
        normal_image == oriented_normals(location_image, self.invRt.t)
        valid_normals == [p \in Cells(h, w) |->
                            IF p \in ValidNormalPixels(self.mask)
                            THEN normal_image[p] ELSE Zero3]
        valid_mean == local_normal_means(valid_normals, h, w)
        mean_normal == normalize(VSum(valid_mean, Cells(h, w)))
    IN  [p \in Cells(h, w) |->
           IF valid_mean[p] # Zero3 THEN valid_mean[p] ELSE mean_normal]

\* C18: every masked pixel whose down or right neighbour is unmasked gets
\* the normalized mean of the valid normals in its 5 x 5 window, no normal
\* computed at an unmasked pixel or from a zero-filled location contributing,
\* and where that mean is zero the global mean direction of the windowed
\* means.
C18_BoundaryRepair ==
    (nrm.pc = "called" /\ nrm.out.ok)
        => \A p \in BoundaryPixels(nrm.self.mask) :
              nrm.out.val.px[p] = RepairedFromValidNormals(nrm.self)[p]

(***************************************************************************)
(* Claims on the instance's life (SpecLife).                               *)
(***************************************************************************)
\* what the method computes from the instance as it is now, nothing memoized
Fresh(op, self) == Call(op, self, EmptyCache).res

\* C1: a call of location_vector(), implied_depth_vector(),
\* implied_normal_image() or implied_normal_vector() returns the value
\* computed from the instance's current parameters, never a value memoized
\* before the parameters changed.
C1_CacheFreshness ==
    (obj.ret # None /\ obj.ret.op \in CachedOps)
        => obj.ret.res = Fresh(obj.ret.op, obj.self)

\* C2: initialize with a mask that is true on the last row or the last
\* column fails with a configuration error, on either variant.
C2_InitializeRejectsBorder ==
    (obj.ret # None /\ obj.ret.op = "initialize" /\ TouchesBorder(obj.self.mask))
        => obj.ret.res = error("ConfigurationError")

\* C5: after initialize / deserialize calls with valid masks only,
\* get_point_count() is the number of true cells of the current mask and
\* location_vector() has that many rows.
C5_PointCount ==
    (obj.ret # None /\ obj.validOnly /\ Has(obj.self, "mask"))
        => /\ obj.ret.op = "get_point_count"
                => obj.ret.res = Ok(Cardinality(obj.self.mask.on))
           /\ obj.ret.op = "location_vector"
                => /\ obj.ret.res.ok
                   /\ Len(obj.ret.res.val.rows) = Cardinality(obj.self.mask.on)

(***************************************************************************)
(* Claims on the RANSAC loop (SpecRansac).                                 *)
(***************************************************************************)
\* C7: for every point the best inlier count starts at the sentinel -1 and
\* never decreases from one pass of the loop to the next.
C7_BestCountMonotone ==
    /\ \A p \in Points : best_inlier_counts[p] = -1
    /\ [][\A p \in Points : best_inlier_counts'[p] >= best_inlier_counts[p]]_vars

\* a pass whose count is below the best so far has run
C7_Witness ==
    /\ iteration >= 2
    /\ \E p \in Points : /\ 0 <= inlier_counts[p]
                         /\ inlier_counts[p] < best_inlier_counts[p]

\* C8: the best inlier mask of a point is replaced in a pass only when the
\* pass's inlier count is strictly greater than the best so far; on a tie
\* the earlier mask is kept, so the mask is always that of the first pass
\* that reached the largest count.
C8_TieBreaking ==
    /\ [](\A p \in Points : best_inliers[p] = first_best[p])
    /\ [][\A p \in Points :
            /\ best_inliers'[p] # best_inliers[p]
                 => inlier_counts'[p] > best_inlier_counts[p]
            /\ (iteration' = iteration + 1 /\ inlier_counts'[p] = best_inlier_counts[p])
                 => best_inliers'[p] = best_inliers[p]]_vars

\* a later pass has tied the best count with a different inlier mask
C8_Witness ==
    /\ iteration >= 2
    /\ \E p \in Points : /\ inlier_counts[p] = best_inlier_counts[p]
                         /\ inliers[p] # best_inliers[p]

\* C9 as stated: with at most subset_size views exactly one iteration runs
\* and every point's inlier set is its full set of valid views.
C9_InliersAreAllValidViews ==
    data.C <= subset_size_cap
        => /\ nr_its = 1
           /\ iteration <= 1
           /\ iteration = 1 => \A p \in Points : best_inliers[p] = ValidViews(data, p)

\* C9: with at most subset_size views the iteration count is one, the one
\* pass draws all the views, and after it every point's inlier set is the set
\* of its valid views whose residual under the fit to all views is below the
\* threshold: a subset of the valid views.
C9_SingleIterationOnAllViews ==
    data.C <= subset_size_cap
        => /\ nr_its = 1
           /\ iteration <= 1
           /\ iteration = 1
                => /\ DOMAIN solution_of_draw = { Views(data) }
                   /\ \A p \in Points :
                        /\ best_inliers[p] \subseteq ValidViews(data, p)
                        /\ best_inliers[p] =
                             { v \in ValidViews(data, p) :
                                 is_inlier(data, p, v,
                                           solve_subset(data, p, Views(data)).val) }

\* the one pass has run and left a valid view of some point out of its inliers
C9_Witness ==
    /\ data.C <= subset_size_cap
    /\ iteration = 1
    /\ rpc = "returned"
    /\ \E p \in Points : /\ best_inliers[p] # ValidViews(data, p)
                         /\ best_inliers[p] # {}

\* C10: the loop is left only after exactly the iteration count computed
\* before it started, whatever the data.
C10_FixedIterationCount ==
    /\ iteration <= nr_its
    /\ rpc # "loop" => iteration = nr_its

\* the observation of view v of point p holds the sentinel in some channel
HasSentinel(d, p, v) ==
    \E c \in 1 .. 3 : d.observations[p][v][c] = OBSERVATION_OUT_OF_BOUNDS

\* C11: every (point, view) entry whose observation holds the out-of-bounds
\* sentinel in any colour channel is occluded: it is outside the validity
\* mask, is never an inlier and is never part of a best inlier mask.
C11_SentinelIsOccluded ==
    \A p \in Points : \A v \in Views(data) :
        HasSentinel(data, p, v)
            => /\ data.occlusions[p][v]
               /\ valid_mask(data, p, v) = 0
               /\ v \notin inliers[p]
               /\ v \notin best_inliers[p]

\* a point with at most two valid views in the whole data set (line 90)
Degenerate(d, p) == Cardinality(ValidViews(d, p)) <= 2

\* a fitted albedo [num, den, nn] is a finite number
FiniteAlbedo(a) == a.num \in Int /\ a.den \in Int /\ a.nn \in Nat /\ a.den # 0

FiniteNormal(n) == \A i \in 1 .. 3 : n[i] \in Int

\* C12: a point with at most 2 valid views in the whole data set (0 valid
\* views included) never makes the solver raise: each of its subset solves,
\* its inlier refit and its three albedo fits gets the regularizer and
\* succeeds, and the normal and albedo returned for it are finite.
C12_DegenerateNeverRaises ==
    \A p \in Points :
        Degenerate(data, p)
            => /\ \A S \in DOMAIN solution_of_draw :
                    /\ invalids_subset(data, p, S) = 1
                    /\ solution_of_draw[S][p].ok
               /\ invalids_subset(data, p, best_inliers[p]) = 1
               /\ inlier_normal(data, p, best_inliers[p]).ok
               /\ \A c \in 1 .. 3 :
                    albedo_fit(data, p, c, inlier_normal(data, p, best_inliers[p]).val,
                               best_inliers[p]).ok
               /\ rpc = "returned"
                    => /\ FiniteNormal(out.val.inlier_normals[p])
                       /\ \A c \in 1 .. 3 : FiniteAlbedo(out.val.albedos[p][c])

\* the call has returned for a data set holding a point without any valid
\* view and a point with one or two valid views and a non-zero normal
C12_Witness ==
    /\ rpc = "returned"
    /\ \E p \in Points : ValidViews(data, p) = {}
    /\ \E p \in Points : /\ Degenerate(data, p)
                         /\ best_inliers[p] # {}
                         /\ out.val.inlier_normals[p] # Zero3

\* C15: in the albedo refit the scalar of the 1x1 normal equations of every
\* point is the sum of its squared shadings plus 1, in each of the three
\* channels (in the model's scale: plus n . n, or plus 1 for the zero normal).
C15_AlbedoRegularized ==
    rpc = "returned" =>
        \A p \in Points : \A c \in 1 .. 3 :
            LET a == out.val.albedos[p][c]
                n == inlier_normal(data, p, out.val.best_inliers[p]).val
            IN  a.den = shading_squares(data, p, c, n, out.val.best_inliers[p])
                          + (IF a.nn = 0 THEN 1 ELSE a.nn)

\* C17: the subset drawn in a pass holds exactly subset_size = min(C, 6)
\* pairwise distinct views out of the C views, and the pass uses the one
\* subset for all points.
C17_SubsetDraw ==
    /\ [](\A S \in DOMAIN solution_of_draw :
            /\ S \subseteq Views(data)
            /\ Cardinality(S) = (IF data.C < 6 THEN data.C ELSE 6))
    /\ [][iteration' = iteration + 1
            => \E S \in DOMAIN solution_of_draw :
                 /\ \A p \in Points : solution_of_draw[S][p].ok
                 /\ inliers' = inliers_of_draw[data][S]]_vars

\* a pass on more than six views has run: the subset left a view out
C17_Witness ==
    /\ iteration >= 2
    /\ data.C > 6
    /\ \E S \in DOMAIN solution_of_draw :
          /\ Cardinality(S) = 6
          /\ \A p \in Points : solution_of_draw[S][p].ok
          /\ inliers = inliers_of_draw[data][S]
          /\ \E p \in Points : inliers[p] \ S # {}

\* view v of point p misses the fit sol = num / den by less than the threshold
ResidualBelowThreshold(d, p, v, sol) ==
    LET a == gray_light_intensities3(d, p, v)
        b == gray_observations3(d, p, v)
        r == a[1] * sol.num[1] + a[2] * sol.num[2] + a[3] * sol.num[3] - b * sol.den
    IN  (IF r < 0 THEN -r ELSE r) < 3 * threshold * (IF sol.den < 0 THEN -sol.den ELSE sol.den)

\* the valid views of point p that miss the fit to subset S by less than the
\* threshold, for each data set, subset and point
valid_views_near_fit ==
    [d \in Datasets |-> [S \in Subsets(d) |-> [p \in Points |->
        LET sol == solve_subset(d, p, S)
        IN  IF sol.ok
            THEN { v \in Views(d) :
                     /\ d.shadows[p][v] = 0 /\ ~ d.occlusions[p][v]
                     /\ ResidualBelowThreshold(d, p, v, sol.val) }
            ELSE {}]]]

\* C16: in every pass the inlier flags are computed over all C views from
\* the fit to the drawn subset, a view is flagged only if it is valid
\* (neither shadowed nor occluded), and so the best inlier mask of every
\* point is always a subset of the point's validity mask.
C16_InliersAreValid ==
    /\ [](\A p \in Points : /\ inliers[p] \subseteq ValidViews(data, p)
                            /\ best_inliers[p] \subseteq ValidViews(data, p))
    /\ [][iteration' = iteration + 1
            => \E S \in DOMAIN solution_of_draw :
                 /\ \A p \in Points : solution_of_draw[S][p].ok
                 /\ inliers' = valid_views_near_fit[data][S]]_vars

\* with more views than the subset holds, a point's best inlier mask holds
\* more views than were drawn, and a point with invalid views has inliers
C16_Witness ==
    /\ iteration >= 1
    /\ \E p \in Points : Cardinality(best_inliers[p]) > subset_size(data.C)
    /\ \E p \in Points : /\ ValidViews(data, p) # Views(data)
                         /\ best_inliers[p] # {}

\* C19: the loop makes at least one pass, and once it has finished the best
\* inlier count of every point is non-negative (the initial -1 is gone) and
\* is the number of views in the point's best inlier mask; in every pass the
\* count and the mask of a point are replaced together, by the pass's count
\* and mask, or both are kept.
C19_CountMatchesMask ==
    /\ [](/\ nr_its >= 1
          /\ iteration = nr_its
               => \A p \in Points :
                     /\ best_inlier_counts[p] >= 0
                     /\ best_inlier_counts[p] = Cardinality(best_inliers[p]))
    /\ [][\A p \in Points :
            \/ /\ best_inlier_counts'[p] = best_inlier_counts[p]
               /\ best_inliers'[p] = best_inliers[p]
            \/ /\ best_inlier_counts'[p] = inlier_counts'[p]
               /\ best_inliers'[p] = inliers'[p]
               /\ inlier_counts'[p] = Cardinality(inliers'[p])]_vars

\* a loop of many passes has finished: the mask of one point holds more views
\* than a subset, and that of another leaves valid views out
C19_Witness ==
    /\ iteration = nr_its
    /\ nr_its > 1
    /\ \E p \in Points : best_inlier_counts[p] > subset_size(data.C)
    /\ \E p \in Points : /\ best_inlier_counts[p] >= 1
                         /\ best_inlier_counts[p] < Cardinality(ValidViews(data, p))

(***************************************************************************)
(* Claims on two calls in one process (SpecReentrant).                     *)
(***************************************************************************)
\* no pass of a call writes the generator shared by the process
NoGlobalWrite == [][rng' = rng]_vars

\* every draw of a call is the draw the call makes when it runs alone from
\* the generator's starting state
DrawsAsAlone ==
    \A c \in Callers :
        call[c].draws >= 1
           => call[c].subset =
                np_random_choice(rng.seed + call[c].draws - 1, data.C,
                                 subset_size(data.C))

\* two calls that have both ended have ended alike
SameResults ==
    \A c, e \in Callers :
        (call[c].pc # "loop" /\ call[e].pc # "loop")
           => /\ call[c].pc = call[e].pc
              /\ call[c].out = call[e].out

\* C13: the solver is stateless and re-entrant: no pass of a call writes
\* state outside the call, every draw of a call is the draw the call makes
\* when it runs alone from the same starting state, and two calls on the same
\* inputs that have both ended have ended alike.
C13_Reentrant == NoGlobalWrite /\ []DrawsAsAlone /\ []SameResults

(***************************************************************************)
(* Claims on the stored settings (SpecSettings).                           *)
(***************************************************************************)
\* the two settings hold the same keys outside non_critical, with equal values
AgreeOnCritical(current, stored, non_critical) ==
    \A k \in (DOMAIN current.dict \cup DOMAIN stored.dict) \ non_critical :
        /\ k \in DOMAIN current.dict
        /\ k \in DOMAIN stored.dict
        /\ py_eq(current.dict[k], stored.dict[k])

\* C14: check_stored(name, index, non_critical) returns False when no
\* settings file is stored for the name and index, returns True when a stored
\* file agrees with the current settings on every key outside non_critical,
\* fails with an error, returning neither, when a stored file differs on
\* such a key, and returns True directly after save(name, index).
C14_CheckStored ==
    sret.op = "check_stored" =>
        LET settings_file == full_name(sret.name, sret.index)
            current == get(settings, sret.name, sret.index)
        IN  /\ settings_file \notin DOMAIN files => sret.res = Ok(FALSE)
            /\ settings_file \in DOMAIN files =>
                 IF AgreeOnCritical(current, json_load(files[settings_file]),
                                    sret.non_critical)
                 THEN sret.res = Ok(TRUE)
                 ELSE sret.res = error("IncompatibleSettingsError")
            /\ sret.after_save => sret.res = Ok(TRUE)

\* check_stored has returned True directly after the save of the second
\* step's settings, which hold lists and merged dictionaries
C14_Witness ==
    /\ sret.op = "check_stored"
    /\ sret.name = "optimization_steps"
    /\ sret.index = 1
    /\ sret.after_save
    /\ sret.non_critical = {}
    /\ DOMAIN files = { "optimization_steps_1", "initialization_settings" }
    /\ sret.res = Ok(TRUE)

(***************************************************************************)
(* Claims on the runs of the main script (SpecMain).                       *)
(***************************************************************************)
\* the settings file of the stage exists in the output folder
SettingsStored(fs, step_index) ==
    full_name(settings_name(step_index), step_index) \in DOMAIN fs

\* the state folder of the stage has been saved completely
StateSaved(step_index) ==
    /\ state_folder(step_index) \in DOMAIN stored_states
    /\ "state" \in DOMAIN stored_states[state_folder(step_index)]

\* the settings file of the stage is written in this step
SettingsWritten(step_index) ==
    /\ SettingsStored(files', step_index)
    /\ SettingsStored(files, step_index)
         => files'[full_name(settings_name(step_index), step_index)]
              # files[full_name(settings_name(step_index), step_index)]

\* C20: the settings file of the initialization and of each optimization
\* step is written only when the state folder of that stage has been saved,
\* so at every point of every run, cut off or not, a stored settings file of
\* a stage implies that the stage's state folder was saved; and in a run in
\* which check_stored returned True for a stage, the stage is never computed
\* again and its state is loaded as the run's next statement.
C20_ResumeOrdering ==
    /\ [](\A step_index \in Stages :
             SettingsStored(files, step_index) => StateSaved(step_index))
    /\ [](\A step_index \in run.found :
             /\ step_index \notin run.computed
             /\ \/ step_index \in run.loaded
                \/ /\ run.step_index = step_index
                   /\ run.at = "load" \/ (run.at = "dead" /\ run.ended = "cut off"))
    /\ [][/\ \A step_index \in Stages :
               SettingsWritten(step_index) => StateSaved(step_index)
          /\ run.at = "save_settings" /\ run'.at # "dead" => StateSaved(run.step_index)]_vars

\* a run on the folder of a run cut off after the first optimization step has
\* loaded the initialization and that step, computed the second step and
\* come to its end
C20_Witness ==
    /\ run.at = "done"
    /\ run.found = {NoIndex, 0}
    /\ run.loaded = {NoIndex, 0}
    /\ run.computed = {MaxSteps - 1}
    /\ \A step_index \in Stages : SettingsStored(files, step_index) /\ StateSaved(step_index)
    /\ stored_states[state_folder(MaxSteps - 1)].state
         = << "initialize", "optimize_0", "optimize_1" >>

====
